---- MODULE Spec2Model ----
(***************************************************************************)
(* Model of the maze solver visualizer (src/src/main.ts): the Maze grid,   *)
(* the three stepwise search strategies BFS, GBFS and ASTAR, the interval  *)
(* timer that drives step(), the Start / Stop / Regenerate / speed         *)
(* controls and the mouse handlers of the canvas.                          *)
(*                                                                         *)
(* A searched_cell is the record [coord, prev_cell]; prev_cell is another  *)
(* searched_cell or undefined_cell.  Math.sqrt values are kept exact: a    *)
(* priority is the record [len, d2] standing for the number                *)
(* len + sqrt(d2), and priorities are compared by exact integer            *)
(* arithmetic.                                                             *)
(***************************************************************************)
EXTENDS Integers, Sequences, FiniteSets, TLC

\* ------------------------------------------------------------------ bounds
\* the largest grid_width and grid_height of a generated grid
MaxSide == 3
\* the largest number of cells of a generated grid (grid_width * grid_height)
MaxCells == 9
\* the largest number of cells regenerate() draws as WALL
MaxWalls == 3
\* the largest number of cells of a grid of the page with the mouse, the
\* grid size controls and the Regenerate button
MaxEditCells == 2
\* the largest grid_width and grid_height the grid size controls are given
MaxConfigSide == 4
\* the largest grid_width * grid_height the grid size controls leave in maze_config
MaxConfigCells == 4

\* --------------------------------------------------------------- constants
FLOOR == "FLOOR"
WALL == "WALL"
ACTIVE == "ACTIVE"
EXPLORED == "EXPLORED"
MazeCell == {FLOOR, WALL, ACTIVE, EXPLORED}

\* the JavaScript value undefined, where a string, an enum value or a timer id is expected
Undefined == "undefined"

\* the JavaScript value undefined, where a searched_cell is expected
undefined_cell == [undefined |-> TRUE]

\* the search classes a config.alg instance can have
AlgKinds == {"BFS", "GBFS", "ASTAR"}

VARIABLES
    width, height,          \* Maze.width, Maze.height
    maze,                   \* Maze.maze[x][y]
    start, end,             \* Maze.start, Maze.end
    alg,                    \* class of config.alg, or Undefined
    is_paused,              \* config.is_paused
    search_ended,           \* MazeSolvingAlgorithm.search_ended
    final_searched_cell,    \* MazeSolvingAlgorithm.final_searched_cell
    interval_code,          \* MazeSolvingAlgorithm.interval_code (Undefined or a timer id)
    interval_live,          \* TRUE while the interval named by interval_code is scheduled
    iterator,               \* BFS.iterator: [items, index] of an array iterator
    next_search_frontier,   \* BFS.next_search_frontier
    search_frontier,        \* GBFS.search_frontier / ASTAR.search_frontier
    expanded,               \* history: coordinates set EXPLORED by step(), in order, for this instance
    live_timers,            \* the number of step timers setInterval scheduled and clearInterval has not cleared
    click_event,            \* click_event: mouse_down, start_coordinate, is_dragging_start, is_dragging_end
    discarded,              \* history: class of the instance the last button_regenerate.onclick dropped
    maze_config,            \* maze_config: grid_width, grid_height
    previous                \* history: what the run that button_start.onclick last replaced had produced

vars == <<width, height, maze, start, end, alg, is_paused, search_ended,
          final_searched_cell, interval_code, interval_live, iterator,
          next_search_frontier, search_frontier, expanded, live_timers, click_event,
          discarded, maze_config, previous>>

maze_vars == <<width, height, maze, start, end>>
alg_vars == <<alg, search_ended, final_searched_cell, interval_code, interval_live,
              iterator, next_search_frontier, search_frontier, expanded, live_timers>>
ui_vars == <<click_event, discarded, maze_config, previous>>

\* ------------------------------------------------------------- coordinates
Coordinate(x, y) == [x |-> x, y |-> y]

Abs(n) == IF n < 0 THEN -n ELSE n

\* all coordinates inside a w x h grid
Coordinates(w, h) == {Coordinate(x, y) : x \in 0 .. (w - 1), y \in 0 .. (h - 1)}

\* coordinate_equals comparing the x fields only
coordinate_equals_x_only(coord1, coord2) == coord1.x = coord2.x

coordinate_equals(coord1, coord2) == coord1.x = coord2.x /\ coord1.y = coord2.y

\* the radicand of euclidean_distance: the distance itself is its square root
euclidean_distance(coord1, coord2) ==
    (coord1.x - coord2.x) * (coord1.x - coord2.x) + (coord1.y - coord2.y) * (coord1.y - coord2.y)

\* p > q for priorities p = p.len + sqrt(p.d2), q = q.len + sqrt(q.d2)
priority_greater(p, q) ==
    LET k == q.len - p.len
        t == p.d2 - q.d2 - k * k
        u == q.d2 - p.d2 - k * k
    IN  IF k >= 0
        THEN t > 0 /\ t * t > 4 * k * k * q.d2
        ELSE ~(u >= 0 /\ u * u >= 4 * k * k * p.d2)

\* ------------------------------------------------------------------- Maze
\* what a property access on undefined gives: the call throws a TypeError
TypeError == "TypeError"

\* maze[x][y] of the Maze with the columns m: with no column x the call
\* throws, with a column x that has no element y it returns undefined
get_cell_type(m, w, h, coordinate) ==
    IF coordinate.x \notin DOMAIN m THEN TypeError
    ELSE IF coordinate.y \in DOMAIN m[coordinate.x]
    THEN m[coordinate.x][coordinate.y]
    ELSE Undefined

\* maze[x][y] = cell_type: with no column x the call throws; an index y past
\* the end of column x makes the column y + 1 long, the elements in between
\* read as undefined
set_cell_type(m, coordinate, cell_type) ==
    IF coordinate.x \notin DOMAIN m THEN TypeError
    ELSE IF coordinate.y \in DOMAIN m[coordinate.x]
    THEN [m EXCEPT ![coordinate.x] = [@ EXCEPT ![coordinate.y] = cell_type]]
    ELSE LET column == m[coordinate.x]
             indices == DOMAIN column \cup (IF coordinate.y >= 0 THEN 0 .. coordinate.y
                                            ELSE {coordinate.y})
         IN  [m EXCEPT ![coordinate.x] =
                 [j \in indices |-> IF j = coordinate.y THEN cell_type
                                    ELSE IF j \in DOMAIN column THEN column[j]
                                    ELSE Undefined]]

get_neighboring_coordinates(w, h, coordinate) ==
    (IF coordinate.x + 1 <= w - 1 THEN <<Coordinate(coordinate.x + 1, coordinate.y)>> ELSE <<>>)
    \o (IF coordinate.y + 1 <= w - 1 THEN <<Coordinate(coordinate.x, coordinate.y + 1)>> ELSE <<>>)
    \o (IF coordinate.x - 1 >= 0 THEN <<Coordinate(coordinate.x - 1, coordinate.y)>> ELSE <<>>)
    \o (IF coordinate.y - 1 >= 0 THEN <<Coordinate(coordinate.x, coordinate.y - 1)>> ELSE <<>>)

\* the grid regenerate() builds when the random draws give start s, end e
\* and WALL exactly on the cells of walls
regenerate(w, h, walls, s, e) ==
    LET drawn == [i \in 0 .. (w - 1) |-> [j \in 0 .. (h - 1) |->
                     IF Coordinate(i, j) \in walls THEN WALL ELSE FLOOR]]
    IN  set_cell_type(set_cell_type(drawn, s, EXPLORED), e, FLOOR)

\* reload that resets the ACTIVE cells only
reload_active_only(m, w, h) ==
    [i \in DOMAIN m |-> [j \in DOMAIN m[i] |->
        IF i \in 0 .. (w - 1) /\ j \in 0 .. (h - 1) /\ m[i][j] = ACTIVE
        THEN FLOOR ELSE m[i][j]]]

\* the elements of a column outside 0 .. h - 1 are not visited and stay
reload(m, w, h) ==
    [i \in DOMAIN m |-> [j \in DOMAIN m[i] |->
        IF i \in 0 .. (w - 1) /\ j \in 0 .. (h - 1) /\ (m[i][j] = ACTIVE \/ m[i][j] = EXPLORED)
        THEN FLOOR ELSE m[i][j]]]

\* ------------------------------------------------------------- strategies
\* a searched_cell linked to the cell before its predecessor
searched_cell_skipping(coord, prev_cell) ==
    [coord |-> coord,
     prev_cell |-> IF prev_cell = undefined_cell THEN undefined_cell ELSE prev_cell.prev_cell]

searched_cell(coord, prev_cell) == [coord |-> coord, prev_cell |-> prev_cell]

Range(seq) == {seq[i] : i \in 1 .. Len(seq)}

\* priority of a GBFS frontier element: euclidean_distance(adjacent_position, maze.end)
gbfs_dist(next_coord) == [len |-> 0, d2 |-> euclidean_distance(next_coord, end)]

\* ASTAR.astar_dist: current_cell.length + euclidean_distance(maze.end, next_coord)
astar_dist(current_cell, next_coord) ==
    [len |-> current_cell.length, d2 |-> euclidean_distance(end, next_coord)]

\* index_to_insert that stops at the first element whose priority is greater or equal
index_to_insert_before_ties(frontier, priority) ==
    LET reached == {k \in 1 .. Len(frontier) : ~priority_greater(priority, frontier[k].priority)}
    IN  IF reached = {} THEN Len(frontier)
        ELSE (CHOOSE k \in reached : \A l \in reached : k <= l) - 1

\* the loop "for (const element of this.search_frontier)" that counts the
\* elements in front of the first one whose priority is greater
index_to_insert(frontier, priority) ==
    LET greater == {k \in 1 .. Len(frontier) : priority_greater(frontier[k].priority, priority)}
    IN  IF greater = {} THEN Len(frontier)
        ELSE (CHOOSE k \in greater : \A l \in greater : k <= l) - 1

\* Array.splice(index, 0, element)
splice(frontier, index, element) ==
    SubSeq(frontier, 1, index) \o <<element>> \o SubSeq(frontier, index + 1, Len(frontier))

\* enqueue that puts the neighbour at the front of the frontier
enqueue_front(kind, frontier, frontier_element, adjacent_position) ==
    LET cell == searched_cell(adjacent_position, frontier_element.cell)
    IN  IF kind = "BFS" THEN <<cell>> \o frontier
        ELSE IF kind = "GBFS"
        THEN <<[priority |-> gbfs_dist(adjacent_position), cell |-> cell]>> \o frontier
        ELSE <<[priority |-> astar_dist(frontier_element, adjacent_position), cell |-> cell,
                length |-> frontier_element.length + 1]>> \o frontier

\* enqueue that drops the neighbour
enqueue_dropped(kind, frontier, frontier_element, adjacent_position) == frontier

\* what each class adds to its frontier for a FLOOR neighbour
enqueue(kind, frontier, frontier_element, adjacent_position) ==
    LET cell == searched_cell(adjacent_position, frontier_element.cell)
    IN  IF kind = "BFS" THEN Append(frontier, cell)
        ELSE IF kind = "GBFS"
        THEN LET priority == gbfs_dist(adjacent_position)
             IN  splice(frontier, index_to_insert(frontier, priority),
                        [priority |-> priority, cell |-> cell])
        ELSE LET priority == astar_dist(frontier_element, adjacent_position)
             IN  splice(frontier, index_to_insert(frontier, priority),
                        [priority |-> priority, cell |-> cell,
                         length |-> frontier_element.length + 1])

\* visit_neighbors without the set_cell_type(adjacent_position, ACTIVE) call
RECURSIVE visit_neighbors_unmarked(_, _, _, _, _, _, _)
visit_neighbors_unmarked(kind, frontier_element, neighbors, i, m, frontier, final) ==
    IF i > Len(neighbors)
    THEN [maze |-> m, frontier |-> frontier, final |-> final]
    ELSE LET adjacent_position == neighbors[i]
         IN  IF coordinate_equals(end, adjacent_position)
             THEN [maze |-> m, frontier |-> frontier,
                   final |-> [coord |-> adjacent_position, prev_cell |-> frontier_element.cell]]
             ELSE IF get_cell_type(m, width, height, adjacent_position) = FLOOR
             THEN CHOOSE visited \in
                      {visit_neighbors_unmarked(kind, frontier_element, neighbors, i + 1,
                                                m, longer, final) :
                          longer \in {enqueue(kind, frontier, frontier_element,
                                              adjacent_position)}} : TRUE
             ELSE visit_neighbors_unmarked(kind, frontier_element, neighbors, i + 1, m, frontier, final)

\* the loop over get_neighboring_coordinates(position.coord) in step(), from
\* neighbour number i on: the end coordinate is recorded and ends the loop,
\* a FLOOR neighbour becomes ACTIVE and is put in the frontier.  The grid
\* and the frontier of the next iteration are bound as values (marked,
\* longer) before the loop continues with them.
RECURSIVE visit_neighbors(_, _, _, _, _, _, _)
visit_neighbors(kind, frontier_element, neighbors, i, m, frontier, final) ==
    IF i > Len(neighbors)
    THEN [maze |-> m, frontier |-> frontier, final |-> final]
    ELSE LET adjacent_position == neighbors[i]
         IN  IF coordinate_equals(end, adjacent_position)
             THEN [maze |-> m, frontier |-> frontier,
                   final |-> searched_cell(adjacent_position, frontier_element.cell)]
             ELSE IF get_cell_type(m, width, height, adjacent_position) = FLOOR
             THEN CHOOSE visited \in
                      {visit_neighbors(kind, frontier_element, neighbors, i + 1,
                                       marked, longer, final) :
                          marked \in {set_cell_type(m, adjacent_position, ACTIVE)},
                          longer \in {enqueue(kind, frontier, frontier_element,
                                              adjacent_position)}} : TRUE
             ELSE visit_neighbors(kind, frontier_element, neighbors, i + 1, m, frontier, final)

\* revert_active reverting every ACTIVE cell of the grid
revert_active_everywhere(m, neighbors) ==
    [i \in DOMAIN m |-> [j \in DOMAIN m[i] |-> IF m[i][j] = ACTIVE THEN FLOOR ELSE m[i][j]]]

\* the second loop of step(): every ACTIVE neighbour goes back to FLOOR
revert_active(m, neighbors) ==
    [i \in DOMAIN m |-> [j \in DOMAIN m[i] |->
        IF Coordinate(i, j) \in Range(neighbors) /\ m[i][j] = ACTIVE THEN FLOOR ELSE m[i][j]]]

\* the coordinates step() gives to get_cell_type and set_cell_type when it
\* expands the cell at coord and final is final_searched_cell before the call:
\* coord itself, the neighbours the first loop reaches before it meets end,
\* and, once a final cell is known, every neighbour in the second loop
cells_accessed(coord, final) ==
    LET neighbors == get_neighboring_coordinates(width, height, coord)
        hits == {k \in 1 .. Len(neighbors) : coordinate_equals(end, neighbors[k])}
        stop == IF hits = {} THEN Len(neighbors) + 1
                ELSE CHOOSE k \in hits : \A l \in hits : k <= l
    IN  {coord}
        \cup {neighbors[k] : k \in 1 .. (stop - 1)}
        \cup (IF final # undefined_cell \/ hits # {} THEN Range(neighbors) ELSE {})

\* the part of step() shared by the three classes: position is set EXPLORED,
\* its neighbours are visited, and once a final cell is known the ACTIVE
\* neighbours are reverted
expand(kind, frontier_element, frontier) ==
    LET position == frontier_element.cell
        neighbors == get_neighboring_coordinates(width, height, position.coord)
    IN  CHOOSE result \in
            {[maze |-> IF visited.final # undefined_cell
                       THEN revert_active(visited.maze, neighbors) ELSE visited.maze,
              frontier |-> visited.frontier,
              final |-> visited.final] :
                visited \in
                    {visit_neighbors(kind, element, neighbors, 1, explored, waiting,
                                     final_searched_cell) :
                        element \in {frontier_element},
                        explored \in {set_cell_type(maze, position.coord, EXPLORED)},
                        waiting \in {frontier}}} : TRUE

\* clearInterval ignoring its argument
clearInterval_ignored(live, timers) == timers

\* clearInterval(code) on a table of timers scheduled timers, where live says
\* whether the timer named by code is still scheduled
clearInterval(live, timers) == IF live THEN timers - 1 ELSE timers

\* setInterval(callback, delay) on a table of timers scheduled timers
setInterval(timers) == timers + 1

\* Array.prototype.values(): an iterator at the front of items
values(items) == [items |-> items, index |-> 0]

\* BFS_ended testing only whether this call ran out of nodes
BFS_ended_locally(done) == done /\ Len(next_search_frontier) = 0

\* this.search_ended as step() tests it: already true, or set by this call
\* because the iterator is done and next_search_frontier is empty
BFS_ended(done) == search_ended \/ (done /\ Len(next_search_frontier) = 0)

\* priority_ended that does not test the length of the frontier
priority_ended_found_only(result) == search_ended \/ result.final # undefined_cell

\* this.search_ended at the end of GBFS.step and ASTAR.step, where result is
\* what the step has made of the grid, the frontier and final_searched_cell:
\* already true, or set because a final cell is known or the frontier is empty
priority_ended(result) ==
    search_ended \/ result.final # undefined_cell \/ Len(result.frontier) = 0

BFS_step ==
    IF interval_code = Undefined \/ is_paused
    THEN UNCHANGED vars
    ELSE LET done == iterator.index >= Len(iterator.items)
             ended == BFS_ended(done)
             swapped == values(next_search_frontier)
             position == IF done
                         THEN (IF Len(swapped.items) > 0 THEN swapped.items[1] ELSE undefined_cell)
                         ELSE iterator.items[iterator.index + 1]
             iterator_after == IF done
                               THEN [swapped EXCEPT !.index = IF Len(swapped.items) > 0 THEN 1 ELSE 0]
                               ELSE [iterator EXCEPT !.index = @ + 1]
             frontier_after == IF done THEN <<>> ELSE next_search_frontier
         IN  /\ iterator' = iterator_after
             /\ IF ~ended
                THEN \E result \in {expand("BFS", [cell |-> position], frontier_after)} :
                         /\ maze' = result.maze
                         /\ next_search_frontier' = result.frontier
                         /\ final_searched_cell' = result.final
                         /\ search_ended' = (result.final # undefined_cell)
                         /\ expanded' = Append(expanded, position.coord)
                         /\ UNCHANGED <<interval_live, live_timers>>
                ELSE /\ next_search_frontier' = frontier_after
                     /\ search_ended' = ended
                     /\ interval_live' = FALSE
                     /\ live_timers' = clearInterval(interval_live, live_timers)
                     /\ UNCHANGED <<maze, final_searched_cell, expanded>>
             /\ UNCHANGED <<width, height, start, end, alg, is_paused, interval_code,
                            search_frontier, ui_vars>>

\* GBFS.step and ASTAR.step differ only in the priority and length of the
\* elements they insert
priority_step(kind) ==
    IF interval_code = Undefined \/ is_paused
    THEN UNCHANGED vars
    ELSE IF Len(search_frontier) = 0
    THEN UNCHANGED vars
    ELSE \E result \in {expand(kind, Head(search_frontier), Tail(search_frontier))} :
         LET frontier_element == Head(search_frontier)
             ended == priority_ended(result)
         IN  /\ maze' = result.maze
             /\ search_frontier' = result.frontier
             /\ final_searched_cell' = result.final
             /\ search_ended' = ended
             /\ interval_live' = IF ended THEN FALSE ELSE interval_live
             /\ live_timers' = IF ended THEN clearInterval(interval_live, live_timers)
                               ELSE live_timers
             /\ expanded' = Append(expanded, frontier_element.cell.coord)
             /\ UNCHANGED <<width, height, start, end, alg, is_paused, interval_code,
                            iterator, next_search_frontier, ui_vars>>

GBFS_step == priority_step("GBFS")

ASTAR_step == priority_step("ASTAR")

\* ---------------------------------------------------------------- driver
\* the callback of setInterval: runs step() of the instance that owns the timer
Tick ==
    /\ interval_live
    /\ alg # Undefined
    /\ IF alg = "BFS" THEN BFS_step
       ELSE IF alg = "GBFS" THEN GBFS_step
       ELSE ASTAR_step

\* textfield_speed.onchange / range_speed.oninput: config.alg?.update_visualize_interval()
update_visualize_interval ==
    /\ alg # Undefined
    /\ interval_code' = "interval"
    /\ interval_live' = TRUE
    /\ live_timers' = setInterval(clearInterval(interval_live, live_timers))
    /\ UNCHANGED <<width, height, maze, start, end, alg, is_paused, search_ended,
                   final_searched_cell, iterator, next_search_frontier, search_frontier,
                   expanded, ui_vars>>

\* cancel_click() on the click_event ce
cancel_click(ce) ==
    [ce EXCEPT !.mouse_down = FALSE, !.is_dragging_end = FALSE, !.is_dragging_start = FALSE]

\* the radio buttons as button_start.onclick reads them: the class whose
\* button is checked, or Undefined when none is
Boxes == AlgKinds \cup {Undefined}

\* button_start.onclick with the radio buttons read as kind
button_start_onclick(kind) ==
    IF is_paused /\ alg # Undefined
    THEN /\ is_paused' = FALSE
         /\ click_event' = cancel_click(click_event)
         /\ UNCHANGED <<width, height, maze, start, end, alg, search_ended,
                        final_searched_cell, interval_code, interval_live, iterator,
                        next_search_frontier, search_frontier, expanded, live_timers,
                        discarded, maze_config>>
    ELSE IF kind = Undefined
    THEN /\ click_event' = cancel_click(click_event)
         /\ live_timers' = IF alg # Undefined
                           THEN clearInterval(interval_live, live_timers) ELSE live_timers
         /\ maze' = IF alg # Undefined THEN reload(maze, width, height) ELSE maze
         /\ alg' = Undefined
         /\ search_ended' = FALSE
         /\ final_searched_cell' = undefined_cell
         /\ interval_code' = Undefined
         /\ interval_live' = FALSE
         /\ iterator' = values(<<>>)
         /\ next_search_frontier' = <<>>
         /\ search_frontier' = <<>>
         /\ expanded' = <<>>
         /\ UNCHANGED <<width, height, start, end, is_paused, discarded, maze_config>>
    ELSE /\ click_event' = cancel_click(click_event)
         /\ live_timers' = setInterval(IF alg # Undefined
                                       THEN clearInterval(interval_live, live_timers)
                                       ELSE live_timers)
         /\ UNCHANGED <<discarded, maze_config>>
         /\ maze' = IF alg # Undefined THEN reload(maze, width, height) ELSE maze
         /\ alg' = kind
         /\ search_ended' = FALSE
         /\ final_searched_cell' = undefined_cell
         /\ iterator' = values(<<>>)
         /\ next_search_frontier' =
                IF kind = "BFS" THEN <<searched_cell(start, undefined_cell)>> ELSE <<>>
         /\ search_frontier' =
                IF kind = "GBFS"
                THEN <<[priority |-> gbfs_dist(start), cell |-> searched_cell(start, undefined_cell)]>>
                ELSE IF kind = "ASTAR"
                THEN <<[priority |-> gbfs_dist(start), cell |-> searched_cell(start, undefined_cell),
                        length |-> 0]>>
                ELSE <<>>
         /\ expanded' = <<>>
         /\ is_paused' = FALSE
         /\ interval_code' = "interval"
         /\ interval_live' = TRUE
         /\ UNCHANGED <<width, height, start, end>>

\* a click on Start with the radio buttons read as kind
Start(kind) == button_start_onclick(kind) /\ UNCHANGED previous

\* button_stop.onclick that clears the step timer
Stop_clearing_timer ==
    /\ is_paused' = TRUE
    /\ interval_live' = FALSE
    /\ live_timers' = clearInterval(interval_live, live_timers)
    /\ UNCHANGED <<maze_vars, ui_vars, alg, search_ended, final_searched_cell, interval_code,
                   iterator, next_search_frontier, search_frontier, expanded>>

\* button_stop.onclick
Stop ==
    /\ is_paused' = TRUE
    /\ UNCHANGED <<maze_vars, alg_vars, ui_vars>>

\* the fields of a strategy instance when config.alg is undefined
NoAlgorithm ==
    /\ alg = Undefined
    /\ search_ended = FALSE
    /\ final_searched_cell = undefined_cell
    /\ interval_code = Undefined
    /\ interval_live = FALSE
    /\ iterator = values(<<>>)
    /\ next_search_frontier = <<>>
    /\ search_frontier = <<>>
    /\ expanded = <<>>
    /\ live_timers = 0

\* new Maze(maze_config): the constructor runs regenerate()
NewMaze(w, h, walls, s, e) ==
    /\ width = w
    /\ height = h
    /\ start = s
    /\ end = e
    /\ maze = regenerate(w, h, walls, s, e)

WallLayouts(w, h) == {walls \in SUBSET Coordinates(w, h) : Cardinality(walls) <= MaxWalls}

\* the grid sizes of the page after load
GridSizes == {size \in (1 .. MaxSide) \X (1 .. MaxSide) : size[1] * size[2] <= MaxCells}

\* the page after load when maze_config holds one of sizes
Load(sizes) ==
    /\ \E size \in sizes :
         LET w == size[1]
             h == size[2]
         IN  /\ maze_config = [grid_width |-> w, grid_height |-> h]
             /\ \E walls \in WallLayouts(w, h), s \in Coordinates(w, h), e \in Coordinates(w, h) :
                    NewMaze(w, h, walls, s, e)
    /\ NoAlgorithm
    /\ is_paused = TRUE
    /\ click_event = [mouse_down |-> FALSE, start_coordinate |-> Coordinate(0, 0),
                      is_dragging_start |-> FALSE, is_dragging_end |-> FALSE]
    /\ discarded = Undefined
    /\ previous = [ended |-> FALSE]

Init == Load(GridSizes)

Next ==
    \/ \E kind \in Boxes : Start(kind)
    \/ Tick
    \/ update_visualize_interval
    \/ Stop

\* the page after load, the Start and Stop buttons, the timer and the speed control
Spec == Init /\ [][Next]_vars

\* one run: Start is pressed once and the timer then calls step() until it
\* is cleared; setInterval keeps calling its callback, so Tick is fair
FirstStart == alg = Undefined /\ \E kind \in AlgKinds : Start(kind)

RunNext ==
    \/ FirstStart
    \/ Tick

RunSpec == Init /\ [][RunNext]_vars /\ WF_vars(Tick)

\* button_start.onclick on a paused strategy: the branch that only unpauses
Resume == is_paused /\ alg # Undefined /\ \E kind \in AlgKinds : Start(kind)

PauseNext ==
    \/ FirstStart
    \/ Tick
    \/ Stop
    \/ Resume

\* one run that is paused and resumed at will
PauseSpec == Init /\ [][PauseNext]_vars

\* button_start.onclick on a run that has ended, with the radio button of its
\* strategy still checked: the branch that calls maze.reload() and runs again
Rerun ==
    /\ alg # Undefined
    /\ search_ended
    /\ ~is_paused
    /\ button_start_onclick(alg)
    /\ previous' = [ended |-> TRUE, alg |-> alg, final |-> final_searched_cell,
                     maze |-> maze, expanded |-> expanded]

RerunNext ==
    \/ FirstStart
    \/ Tick
    \/ Rerun

\* a strategy run to its end on the generated grid and then run again and again
RerunSpec == Init /\ [][RerunNext]_vars

\* ------------------------------------------------------- mouse editing
\* canvas.onmousedown on the cell clicked_coordinate
onmousedown(clicked_coordinate) ==
    /\ ~(alg # Undefined \/ click_event.mouse_down)
    /\ click_event' =
          [click_event EXCEPT
              !.start_coordinate = clicked_coordinate,
              !.mouse_down = TRUE,
              !.is_dragging_start = @ \/ coordinate_equals(start, clicked_coordinate),
              !.is_dragging_end = @ \/ (/\ ~coordinate_equals(start, clicked_coordinate)
                                       /\ coordinate_equals(end, clicked_coordinate))]
    /\ UNCHANGED <<maze_vars, alg_vars, is_paused, discarded, maze_config, previous>>

\* the third branch of canvas.onmouseup: a FLOOR cell becomes WALL, any other cell FLOOR
toggle_wall(m, nearest) ==
    IF get_cell_type(m, width, height, nearest) = TypeError THEN TypeError
    ELSE IF get_cell_type(m, width, height, nearest) = FLOOR
    THEN set_cell_type(m, nearest, WALL)
    ELSE set_cell_type(m, nearest, FLOOR)

\* the first two branches of canvas.onmouseup: nearest becomes FLOOR and the
\* cell of the dragged marker gets the type nearest had
drop_marker(m, marker, nearest) ==
    LET displaced_type == get_cell_type(m, width, height, nearest)
    IN  IF displaced_type = TypeError THEN TypeError
        ELSE set_cell_type(set_cell_type(m, nearest, FLOOR), marker, displaced_type)

\* canvas.onmouseup on the cell nearest: each of the three branches begins
\* with maze.get_cell_type(nearest), and when that call throws the handler
\* ends there, before it has changed anything and before cancel_click()
onmouseup(nearest) ==
    IF /\ \/ click_event.is_dragging_start
          \/ click_event.is_dragging_end
          \/ coordinate_equals(click_event.start_coordinate, nearest)
       /\ get_cell_type(maze, width, height, nearest) = TypeError
    THEN UNCHANGED vars
    ELSE /\ IF click_event.is_dragging_start
            THEN /\ maze' = drop_marker(maze, start, nearest)
                 /\ start' = nearest
                 /\ UNCHANGED end
            ELSE IF click_event.is_dragging_end
            THEN /\ maze' = drop_marker(maze, end, nearest)
                 /\ end' = nearest
                 /\ UNCHANGED start
            ELSE IF coordinate_equals(click_event.start_coordinate, nearest)
            THEN /\ maze' = toggle_wall(maze, nearest)
                 /\ UNCHANGED <<start, end>>
            ELSE UNCHANGED <<maze, start, end>>
         /\ click_event' = cancel_click(click_event)
         /\ UNCHANGED <<width, height, alg_vars, is_paused, discarded, maze_config, previous>>

Min(a, b) == IF a < b THEN a ELSE b

Max(a, b) == IF a > b THEN a ELSE b

\* the grid sizes the grid size controls leave in maze_config
ConfigSizes ==
    {size \in (1 .. MaxConfigSide) \X (1 .. MaxConfigSide) : size[1] * size[2] <= MaxConfigCells}

\* the grid sizes of the page with the mouse and the Regenerate button
EditSizes == {size \in ConfigSizes : size[1] * size[2] <= MaxEditCells}

\* range_grid_width.oninput with the slider at value
range_grid_width_oninput(value) ==
    /\ maze_config' = [maze_config EXCEPT !.grid_width = value]
    /\ UNCHANGED <<maze_vars, alg_vars, is_paused, click_event, discarded, previous>>

\* range_grid_height.oninput with the slider at value
range_grid_height_oninput(value) ==
    /\ maze_config' = [maze_config EXCEPT !.grid_height = value]
    /\ UNCHANGED <<maze_vars, alg_vars, is_paused, click_event, discarded, previous>>

\* textfield_grid_width.onchange with the number value typed
textfield_grid_width_onchange(value) ==
    LET new_value == Min(Max(value, 4), 100)
    IN  /\ maze_config' = [maze_config EXCEPT !.grid_width = new_value]
        /\ UNCHANGED <<maze_vars, alg_vars, is_paused, click_event, discarded, previous>>

\* textfield_grid_height.onchange with the number value typed
textfield_grid_height_onchange(value) ==
    LET new_value == Min(Max(value, 4), 100)
    IN  /\ maze_config' = [maze_config EXCEPT !.grid_height = new_value]
        /\ UNCHANGED <<maze_vars, alg_vars, is_paused, click_event, discarded, previous>>

\* the numbers the grid size controls are given
SizeInputs == 1 .. MaxConfigSide

\* one of the four grid size handlers, leaving one of ConfigSizes in maze_config
GridSizeEvent ==
    /\ \/ \E value \in SizeInputs : range_grid_width_oninput(value)
       \/ \E value \in SizeInputs : range_grid_height_oninput(value)
       \/ \E value \in SizeInputs : textfield_grid_width_onchange(value)
       \/ \E value \in SizeInputs : textfield_grid_height_onchange(value)
    /\ <<maze_config'.grid_width, maze_config'.grid_height>> \in ConfigSizes

\* button_regenerate.onclick when the random draws of the new Maze give walls,
\* s and e: the new Maze has the size maze_config holds
Regenerate(walls, s, e) ==
    /\ click_event' = cancel_click(click_event)
    /\ live_timers' = IF alg # Undefined
                      THEN clearInterval(interval_live, live_timers) ELSE live_timers
    /\ discarded' = alg
    /\ UNCHANGED <<maze_config, previous>>
    /\ alg' = Undefined
    /\ search_ended' = FALSE
    /\ final_searched_cell' = undefined_cell
    /\ interval_code' = Undefined
    /\ interval_live' = FALSE
    /\ iterator' = values(<<>>)
    /\ next_search_frontier' = <<>>
    /\ search_frontier' = <<>>
    /\ expanded' = <<>>
    /\ start' = s
    /\ end' = e
    /\ width' = maze_config.grid_width
    /\ height' = maze_config.grid_height
    /\ maze' = regenerate(maze_config.grid_width, maze_config.grid_height, walls, s, e)
    /\ UNCHANGED is_paused

\* the cells a new Maze with start s and end e can hold as WALL: a WALL drawn
\* for the cell of s or e is overwritten by regenerate()
DrawnWalls(s, e) ==
    {walls \in WallLayouts(maze_config.grid_width, maze_config.grid_height) :
        s \notin walls /\ e \notin walls}

\* button_regenerate.onclick with any random draws of the new Maze, while
\* maze_config holds one of EditSizes
button_regenerate_onclick ==
    /\ <<maze_config.grid_width, maze_config.grid_height>> \in EditSizes
    /\ \E s \in Coordinates(maze_config.grid_width, maze_config.grid_height),
          e \in Coordinates(maze_config.grid_width, maze_config.grid_height) :
             \E walls \in DrawnWalls(s, e) : Regenerate(walls, s, e)

UIInit == Load(EditSizes)

UINext ==
    \/ \E kind \in Boxes : Start(kind)
    \/ Tick
    \/ update_visualize_interval
    \/ Stop
    \/ \E clicked_coordinate \in Coordinates(width, height) : onmousedown(clicked_coordinate)
    \/ \E nearest \in Coordinates(width, height) : onmouseup(nearest)
    \/ button_regenerate_onclick
    \/ GridSizeEvent

\* the whole page: the buttons, the speed control, the timer and the mouse on the canvas
UISpec == UIInit /\ [][UINext]_vars

TimerNext ==
    \/ \E kind \in Boxes : Start(kind)
    \/ Tick
    \/ update_visualize_interval
    \/ Stop
    \/ button_regenerate_onclick
    \/ GridSizeEvent

\* the page without the mouse: the buttons, the speed control and the timer
TimerSpec == UIInit /\ [][TimerNext]_vars

\* ------------------------------------------------- reference definitions
InBounds(c) == c.x \in 0 .. (width - 1) /\ c.y \in 0 .. (height - 1)

\* the cells at 4-directional distance 1 inside the grid, in the order +x, +y, -x, -y
AdjacentCells(c) ==
    LET candidates == <<Coordinate(c.x + 1, c.y), Coordinate(c.x, c.y + 1),
                        Coordinate(c.x - 1, c.y), Coordinate(c.x, c.y - 1)>>
    IN  SelectSeq(candidates, InBounds)

\* start and end count as passable whatever their cell holds
Passable(c) == InBounds(c) /\ (maze[c.x][c.y] # WALL \/ c = start \/ c = end)

\* reference breadth-first search: the number of edges of a shortest path
\* from the cells of layer (at distance d from start) to end, or -1
RECURSIVE LayerDistance(_, _, _)
LayerDistance(layer, seen, d) ==
    IF end \in layer THEN d
    ELSE LET next == {c \in Coordinates(width, height) :
                         /\ c \notin seen
                         /\ Passable(c)
                         /\ \E b \in layer : c \in Range(AdjacentCells(b))}
         IN  IF next = {} THEN -1 ELSE LayerDistance(next, seen \cup next, d + 1)

ShortestPathLength == LayerDistance({start}, {start}, 0)

PathExists == ShortestPathLength >= 0

\* the number of prev_cell links from cell to the root of its chain
RECURSIVE ChainLength(_)
ChainLength(cell) ==
    IF cell.prev_cell = undefined_cell THEN 0 ELSE 1 + ChainLength(cell.prev_cell)

\* the coordinates on the chain of cell, root first
RECURSIVE Reconstruct(_)
Reconstruct(cell) ==
    IF cell.prev_cell = undefined_cell THEN <<cell.coord>>
    ELSE Append(Reconstruct(cell.prev_cell), cell.coord)

\* ------------------------------------------------------------------ claims

\* C1: when a path from start to end exists, the step that ends a BFS run
\* leaves a found node whose chain back to the start has the shortest-path
\* edge length.
C1_BFSOptimal ==
    [][(alg = "BFS" /\ ~search_ended /\ search_ended' /\ PathExists) =>
          /\ final_searched_cell' # undefined_cell
          /\ ChainLength(final_searched_cell') = ShortestPathLength]_vars

\* C2: when a path from start to end exists, the step that ends an ASTAR run
\* leaves a found node whose chain back to the start has the shortest-path
\* edge length.
C2_AStarOptimal ==
    [][(alg = "ASTAR" /\ ~search_ended /\ search_ended' /\ PathExists) =>
          /\ final_searched_cell' # undefined_cell
          /\ ChainLength(final_searched_cell') = ShortestPathLength]_vars

\* C5: when a path from start to end exists, the step that ends a GBFS run
\* leaves a found node: the run never ends exhausted.
C5_GBFSComplete ==
    [][(alg = "GBFS" /\ ~search_ended /\ search_ended' /\ PathExists) =>
          final_searched_cell' # undefined_cell]_vars

\* C6: for every in-bounds coordinate, get_neighboring_coordinates returns
\* exactly the in-bounds cells at 4-directional distance 1, in the order
\* +x, +y, -x, -y.
C6_NeighborsExact ==
    \A c \in Coordinates(width, height) :
        get_neighboring_coordinates(width, height, c) = AdjacentCells(c)

NoCellExpandedTwice ==
    \A i, j \in 1 .. Len(expanded) : i # j => expanded[i] # expanded[j]

\* step() of the running instance is still being called and takes none of
\* its early returns: the timer is scheduled, interval_code is set, the page
\* is not paused, and the frontier of GBFS and ASTAR holds an element to shift
StepScheduled ==
    /\ interval_live
    /\ interval_code # Undefined
    /\ ~is_paused
    /\ alg \in {"GBFS", "ASTAR"} => Len(search_frontier) > 0

\* C3: every run of BFS, GBFS and ASTAR reaches search_ended = true, it
\* expands no cell twice and at most width x height cells; until it has
\* ended step() stays scheduled without an early return, the next timer
\* callback changes the state, and every step() either ends the search or
\* expands one more cell.
C3_BoundedTermination ==
    /\ [](alg # Undefined => <>search_ended)
    /\ [](NoCellExpandedTwice /\ Len(expanded) <= width * height)
    /\ []((alg # Undefined /\ ~search_ended) => (StepScheduled /\ ENABLED <<Tick>>_vars))
    /\ [][(alg # Undefined /\ ~search_ended /\ Tick)
            => (search_ended' \/ Len(expanded') = Len(expanded) + 1)]_vars

\* a GBFS or ASTAR run that ended exhausted after expanding six cells
C3_Witness ==
    /\ alg \in {"GBFS", "ASTAR"}
    /\ search_ended
    /\ final_searched_cell = undefined_cell
    /\ Len(search_frontier) = 0
    /\ Len(expanded) >= 6

\* the run has ended with no found node
Exhausted == search_ended /\ final_searched_cell = undefined_cell

\* C4: when end cannot be reached from start, the run of each of BFS, GBFS
\* and ASTAR (alg ranges over the three) ends with search_ended = true and
\* final_searched_cell still undefined, no found node is recorded at any
\* moment of the run, and until the run has ended step() stays scheduled
\* without an early return.
C4_ExhaustedOutcome ==
    /\ []((alg \in AlgKinds /\ ~PathExists) => <>Exhausted)
    /\ []((alg \in AlgKinds /\ ~PathExists) =>
            /\ final_searched_cell = undefined_cell
            /\ ~search_ended => StepScheduled)

\* the 3x3 grid whose middle row is WALL, start (0,0), end (0,2), searched
\* by GBFS to its end: the three cells of the top row were expanded
C4_Witness ==
    /\ alg = "GBFS"
    /\ Len(expanded) = 3
    /\ width = 3 /\ height = 3
    /\ start = Coordinate(0, 0) /\ end = Coordinate(0, 2)
    /\ \A x \in 0 .. 2 : maze[x][1] = WALL
    /\ search_ended
    /\ ~interval_live
    /\ final_searched_cell = undefined_cell

\* C7: once search_ended is true, a further step() of GBFS or ASTAR changes
\* no grid cell, search_ended or final_searched_cell.
C7_PriorityFrozen ==
    [][(alg \in {"GBFS", "ASTAR"} /\ search_ended /\ Tick)
          => UNCHANGED <<maze, search_ended, final_searched_cell>>]_vars

\* C8: once search_ended is true, a further step() of BFS changes no grid
\* cell, search_ended or final_searched_cell.
C8_BFSFrozen ==
    [][(alg = "BFS" /\ search_ended /\ Tick)
          => UNCHANGED <<maze, search_ended, final_searched_cell>>]_vars

\* a BFS run that found the end and then took the step that swaps in the
\* nodes left in next_search_frontier
C8_Witness ==
    /\ alg = "BFS"
    /\ search_ended
    /\ final_searched_cell # undefined_cell
    /\ Len(iterator.items) > 0
    /\ iterator.index > 0
    /\ \A i \in 1 .. Len(iterator.items) :
          iterator.items[i].prev_cell = final_searched_cell.prev_cell

\* the change of cell c in one step: none, forward along FLOOR, ACTIVE,
\* EXPLORED, or the reversion ACTIVE -> FLOOR
MonotoneChange(c) ==
    LET old == maze[c.x][c.y]
        new == maze'[c.x][c.y]
    IN  \/ new = old
        \/ old = FLOOR /\ new \in {ACTIVE, EXPLORED}
        \/ old = ACTIVE /\ new = EXPLORED
        \/ /\ old = ACTIVE /\ new = FLOOR
           /\ final_searched_cell = undefined_cell
           /\ final_searched_cell' # undefined_cell
           /\ c \in Range(AdjacentCells(expanded'[Len(expanded')]))

\* C9: in a step of a strategy that has not ended, a cell keeps its state or
\* moves forward along FLOOR, ACTIVE, EXPLORED; ACTIVE goes back to FLOOR only
\* in the step that records the found node and only next to the node
\* expanded in that step.
C9_CellMonotone ==
    [][(alg # Undefined /\ ~search_ended /\ Tick)
          => \A c \in Coordinates(width, height) : MonotoneChange(c)]_vars

\* a run that found the end and left a cell of its frontier reverted to FLOOR
C9_Witness ==
    /\ alg = "GBFS"
    /\ search_ended
    /\ final_searched_cell # undefined_cell
    /\ \E i \in 1 .. Len(search_frontier) :
          /\ get_cell_type(maze, width, height, search_frontier[i].cell.coord) = FLOOR
          /\ search_frontier[i].cell.prev_cell = final_searched_cell.prev_cell

\* C10: the chain of a found node, reversed, starts at maze.start, ends at
\* maze.end, moves by exactly 1 in exactly one axis at every link and stays
\* inside the grid.
C10_PathWellFormed ==
    final_searched_cell # undefined_cell =>
        LET path == Reconstruct(final_searched_cell)
        IN  /\ path[1] = start
            /\ path[Len(path)] = end
            /\ \A i \in 1 .. Len(path) : InBounds(path[i])
            /\ \A i \in 1 .. (Len(path) - 1) :
                  Abs(path[i].x - path[i + 1].x) + Abs(path[i].y - path[i + 1].y) = 1

\* a found node whose path has four or more coordinates and turns a corner
C10_Witness ==
    /\ final_searched_cell # undefined_cell
    /\ LET path == Reconstruct(final_searched_cell)
       IN  /\ Len(path) >= 4
           /\ \E i \in 1 .. (Len(path) - 1) : path[i].x # path[i + 1].x
           /\ \E i \in 1 .. (Len(path) - 1) : path[i].y # path[i + 1].y

\* C11: on the 1x1 grid, where start = end = (0,0), the first step() of a
\* strategy ends the run with a found node whose path is the single
\* coordinate (0,0).
C11_SingleCellFound ==
    [][(/\ width = 1 /\ height = 1
        /\ alg # Undefined /\ ~is_paused /\ ~search_ended /\ expanded = <<>>
        /\ Tick)
          => /\ search_ended'
             /\ final_searched_cell' # undefined_cell
             /\ Reconstruct(final_searched_cell') = <<Coordinate(0, 0)>>]_vars

\* the 3x1 grid without walls, start (0,0), end (2,0), searched by BFS
Corridor ==
    /\ width = 3 /\ height = 1
    /\ start = Coordinate(0, 0) /\ end = Coordinate(2, 0)
    /\ \A x \in 0 .. 2 : maze[x][0] # WALL
    /\ alg = "BFS"

\* C12: in the 3x1 corridor every step() of BFS expands one cell until the
\* search has ended, the search ends with the second step(), and it ends with
\* a found node whose path is (0,0), (1,0), (2,0).
C12_CorridorScenario ==
    /\ [](Corridor =>
            /\ Len(expanded) <= 2
            /\ search_ended <=> Len(expanded) = 2
            /\ search_ended =>
                  /\ final_searched_cell # undefined_cell
                  /\ Reconstruct(final_searched_cell) =
                        <<Coordinate(0, 0), Coordinate(1, 0), Coordinate(2, 0)>>)
    /\ [][(Corridor /\ ~search_ended /\ Tick) => Len(expanded') = Len(expanded) + 1]_vars

\* the corridor after the second step()
C12_Witness ==
    /\ Corridor
    /\ search_ended
    /\ Len(expanded) = 2
    /\ maze[1][0] = EXPLORED

\* button_start.onclick on a strategy that is not paused: the branch that calls maze.reload()
Restart == alg # Undefined /\ ~is_paused /\ \E kind \in Boxes : Start(kind)

\* C13: after reload() no cell is ACTIVE or EXPLORED, every cell that was
\* ACTIVE or EXPLORED is FLOOR, every WALL and FLOOR cell, the grid
\* dimensions, start and end are unchanged, and a second reload() changes
\* nothing.
C13_Reload ==
    [][Restart =>
          /\ width' = width /\ height' = height
          /\ start' = start /\ end' = end
          /\ \A c \in Coordinates(width, height) :
                /\ maze'[c.x][c.y] \notin {ACTIVE, EXPLORED}
                /\ maze[c.x][c.y] \in {ACTIVE, EXPLORED} => maze'[c.x][c.y] = FLOOR
                /\ maze[c.x][c.y] \in {WALL, FLOOR} => maze'[c.x][c.y] = maze[c.x][c.y]
          /\ reload(maze', width', height') = maze']_vars

\* a new instance on a grid with walls whose start cell, EXPLORED since
\* regenerate(), was reset by reload()
C13_Witness ==
    /\ alg # Undefined
    /\ expanded = <<>>
    /\ start # end
    /\ maze[start.x][start.y] = FLOOR
    /\ \E c \in Coordinates(width, height) : maze[c.x][c.y] = WALL
    /\ \A c \in Coordinates(width, height) : maze[c.x][c.y] \notin {ACTIVE, EXPLORED}

\* p = q for priorities p and q
priority_equal(p, q) == ~priority_greater(p, q) /\ ~priority_greater(q, p)

\* C14: every element of the ASTAR frontier has a priority equal to its own
\* length plus the straight-line distance from its cell to end, and its
\* length is the number of prev_cell links from its cell back to the start.
C14_AStarPriority ==
    alg = "ASTAR" =>
        \A i \in 1 .. Len(search_frontier) :
            LET element == search_frontier[i]
            IN  /\ element.length = ChainLength(element.cell)
                /\ priority_equal(element.priority,
                                  [len |-> element.length,
                                   d2 |-> euclidean_distance(element.cell.coord, end)])

\* a call of GBFS.step or ASTAR.step that removes the head of the frontier
PriorityStep ==
    /\ alg \in {"GBFS", "ASTAR"}
    /\ ~is_paused
    /\ Len(search_frontier) > 0
    /\ Tick

Sorted(frontier) ==
    \A i, j \in 1 .. Len(frontier) :
        i < j => ~priority_greater(frontier[i].priority, frontier[j].priority)

\* the elements of frontier at the positions outside inserted, from position i on
RECURSIVE Kept(_, _, _)
Kept(frontier, inserted, i) ==
    IF i > Len(frontier) THEN <<>>
    ELSE IF i \in inserted THEN Kept(frontier, inserted, i + 1)
    ELSE <<frontier[i]>> \o Kept(frontier, inserted, i + 1)

\* the position of coord among the neighbours, 0 if it is none of them
NeighborIndex(neighbors, coord) ==
    IF coord \in Range(neighbors)
    THEN CHOOSE k \in 1 .. Len(neighbors) : neighbors[k] = coord
    ELSE 0

\* after is before without its head and with new elements at the positions
\* inserted: every new element stands behind all elements of equal priority
\* that were there before, and new elements of equal priority stand in the
\* order in which the neighbours were visited
StableInsertion(before, after, inserted) ==
    LET neighbors == get_neighboring_coordinates(width, height, Head(before).cell.coord)
    IN  /\ Kept(after, inserted, 1) = Tail(before)
        /\ \A s \in inserted :
              /\ after[s].cell.prev_cell = Head(before).cell
              /\ NeighborIndex(neighbors, after[s].cell.coord) > 0
        /\ \A s \in inserted, i \in 1 .. Len(after) :
              (i > s /\ priority_equal(after[i].priority, after[s].priority)) =>
                  /\ i \in inserted
                  /\ NeighborIndex(neighbors, after[s].cell.coord)
                        < NeighborIndex(neighbors, after[i].cell.coord)

\* C15: the frontier of GBFS and ASTAR is sorted in non-decreasing priority
\* in every state; the element a step() removes has a priority no greater
\* than any element that stays in the frontier; and a step() puts every new
\* element behind all elements of equal priority, in the order of insertion.
C15_SortedStable ==
    /\ [](alg \in {"GBFS", "ASTAR"} => Sorted(search_frontier))
    /\ [][PriorityStep =>
            /\ \A k \in 2 .. Len(search_frontier) :
                  ~priority_greater(search_frontier[1].priority, search_frontier[k].priority)
            /\ \E inserted \in SUBSET (1 .. Len(search_frontier')) :
                  StableInsertion(search_frontier, search_frontier', inserted)]_vars

\* a frontier of three or more elements in which an element stands directly
\* behind an element of equal priority that was inserted by an earlier step()
C15_Witness ==
    /\ alg \in {"GBFS", "ASTAR"}
    /\ Len(search_frontier) >= 3
    /\ \E i \in 1 .. (Len(search_frontier) - 1) :
          /\ priority_equal(search_frontier[i].priority, search_frontier[i + 1].priority)
          /\ search_frontier[i].cell.prev_cell # search_frontier[i + 1].cell.prev_cell
          /\ ChainLength(search_frontier[i].cell) < ChainLength(search_frontier[i + 1].cell)

\* the nodes BFS has discovered and not yet expanded, oldest first: the rest
\* of the current frontier, then the next frontier
Discovered ==
    SubSeq(iterator.items, iterator.index + 1, Len(iterator.items)) \o next_search_frontier

\* a call of BFS.step that runs while the search has not ended
BFSStep ==
    /\ alg = "BFS"
    /\ ~is_paused
    /\ ~search_ended
    /\ Tick

\* C16: a BFS step() that runs while the search has not ended expands exactly
\* one node, the oldest discovered one, when the current or the next frontier
\* holds a node (also in the first call and in a call that swaps the
\* frontiers), and appends what it discovers behind the nodes still waiting;
\* when both are empty it sets search_ended and expands nothing.
C16_BFSOneExpansion ==
    [][BFSStep =>
          IF Len(Discovered) > 0
          THEN LET position == Head(Discovered)
                   waiting == Tail(Discovered)
               IN  /\ expanded' = Append(expanded, position.coord)
                   /\ maze'[position.coord.x][position.coord.y] = EXPLORED
                   /\ Len(Discovered') >= Len(waiting)
                   /\ SubSeq(Discovered', 1, Len(waiting)) = waiting
          ELSE /\ search_ended'
               /\ expanded' = expanded
               /\ maze' = maze]_vars

\* BFS just after a call that swapped the frontiers and expanded the first
\* node of the new current frontier, with more nodes waiting in both
C16_Witness ==
    /\ alg = "BFS"
    /\ ~search_ended
    /\ iterator.index = 1
    /\ Len(iterator.items) >= 2
    /\ Len(next_search_frontier) >= 1
    /\ Len(expanded) >= 3

\* a call of step() that records the found node
FoundStep ==
    /\ alg # Undefined
    /\ final_searched_cell = undefined_cell
    /\ final_searched_cell' # undefined_cell
    /\ Tick

\* C17: in the step() that records the found node, afterwards the expanded
\* cell is EXPLORED, no in-bounds neighbour of it is ACTIVE (those that were
\* ACTIVE are FLOOR), and ACTIVE cells that are not its neighbours stay
\* ACTIVE; while no found node is recorded, no step() changes a cell from
\* ACTIVE to FLOOR.
C17_ReversionScope ==
    /\ [][FoundStep =>
            LET position == expanded'[Len(expanded')]
                near == Range(AdjacentCells(position))
            IN  /\ maze'[position.x][position.y] = EXPLORED
                /\ \A c \in near :
                      /\ maze'[c.x][c.y] # ACTIVE
                      /\ maze[c.x][c.y] = ACTIVE => maze'[c.x][c.y] = FLOOR
                /\ \A c \in Coordinates(width, height) \ (near \cup {position}) :
                      maze[c.x][c.y] = ACTIVE => maze'[c.x][c.y] = ACTIVE]_vars
    /\ [][(alg # Undefined /\ Tick /\ final_searched_cell' = undefined_cell) =>
            \A c \in Coordinates(width, height) :
                ~(maze[c.x][c.y] = ACTIVE /\ maze'[c.x][c.y] = FLOOR)]_vars

\* a call of one of the editing handlers of the canvas
EditingEvent ==
    \/ \E clicked_coordinate \in Coordinates(width, height) : onmousedown(clicked_coordinate)
    \/ \E nearest \in Coordinates(width, height) : onmouseup(nearest)

\* C18: while a strategy instance exists (config.alg is not undefined) the
\* editing handlers change no grid cell and move neither start nor end, and
\* as long as the instance exists the grid, start and end change only in
\* step() or when button_start.onclick replaces the instance.
C18_EditingNeverOverlaps ==
    /\ [][(alg # Undefined /\ EditingEvent) => UNCHANGED <<maze, start, end>>]_vars
    /\ [][(alg # Undefined /\ alg' # Undefined /\ <<maze, start, end>>' # <<maze, start, end>>)
            => (Tick \/ \E kind \in AlgKinds : Start(kind))]_vars

\* C19: in every state start and end are inside the grid and neither the
\* start cell nor the end cell is WALL.
C19_StartEndPassable ==
    /\ InBounds(start)
    /\ InBounds(end)
    /\ maze[start.x][start.y] # WALL
    /\ maze[end.x][end.y] # WALL

\* C20: at most one step timer is scheduled, it is the timer of the instance
\* in config.alg, no step timer is scheduled while config.alg is undefined
\* (after button_regenerate.onclick, or after button_start.onclick found no
\* radio button checked),
\* and while config.alg is undefined the grid changes only when
\* button_regenerate.onclick replaces it.
C20_OneActiveStrategy ==
    /\ [](/\ live_timers <= 1
          /\ live_timers = 1 <=> interval_live
          /\ interval_live => (alg # Undefined /\ interval_code # Undefined)
          /\ alg = Undefined => live_timers = 0)
    /\ [][(alg = Undefined /\ <<maze, start, end>>' # <<maze, start, end>>) =>
            Regenerate({c \in Coordinates(width', height') : maze'[c.x][c.y] = WALL},
                       start', end')]_vars

\* after button_regenerate.onclick dropped a strategy, a strategy of another
\* class is stepping on the new grid
C20_Witness ==
    /\ discarded # Undefined
    /\ alg # Undefined
    /\ alg # discarded
    /\ interval_live
    /\ live_timers = 1
    /\ Len(expanded) >= 1

\* C21: every coordinate a step() of BFS, GBFS or ASTAR gives to
\* get_cell_type or set_cell_type lies inside the grid.
C21_InBoundsAccess ==
    [][(alg # Undefined /\ Tick /\ Len(expanded') = Len(expanded) + 1) =>
          \A c \in cells_accessed(expanded'[Len(expanded')], final_searched_cell) :
              InBounds(c)]_vars

\* the grid regenerate() left for this run, recovered from its walls
InitialGrid ==
    set_cell_type(set_cell_type(reload(maze, width, height), start, EXPLORED), end, FLOOR)

\* the frontier a new instance of kind holds
InitialFrontier(kind) ==
    IF kind = "BFS" THEN <<searched_cell(start, undefined_cell)>>
    ELSE IF kind = "GBFS"
    THEN <<[priority |-> gbfs_dist(start), cell |-> searched_cell(start, undefined_cell)]>>
    ELSE <<[priority |-> gbfs_dist(start), cell |-> searched_cell(start, undefined_cell),
            length |-> 0]>>

\* the run of kind from grid m with the nodes of queue waiting, when every
\* step() follows the one before without a pause: the head of queue is
\* expanded until a found node is recorded or queue is empty
RECURSIVE UnpausedRun(_, _, _, _, _)
UnpausedRun(kind, queue, m, final, order) ==
    IF final # undefined_cell \/ Len(queue) = 0
    THEN [final |-> final, maze |-> m, expanded |-> order]
    ELSE LET element == IF kind = "BFS" THEN [cell |-> Head(queue)] ELSE Head(queue)
             position == element.cell
             neighbors == get_neighboring_coordinates(width, height, position.coord)
             visited == visit_neighbors(kind, element, neighbors, 1,
                                        set_cell_type(m, position.coord, EXPLORED),
                                        Tail(queue), final)
             after == IF visited.final # undefined_cell
                      THEN revert_active(visited.maze, neighbors) ELSE visited.maze
         IN  UnpausedRun(kind, visited.frontier, after, visited.final,
                         Append(order, position.coord))

\* what a run has produced: the found node, the grid and the order of expansion
Outcome == [final |-> final_searched_cell, maze |-> maze, expanded |-> expanded]

\* C22: a timer tick while is_paused is true changes no grid cell, no
\* frontier, not the BFS cursor, search_ended or final_searched_cell; pausing
\* and resuming change nothing of the grid and the strategy; and a run that
\* was paused and resumed at will ends with the found node, the grid and the
\* order of expansion of the same run never paused.
C22_PauseLossless ==
    /\ [][(is_paused /\ Tick) =>
            UNCHANGED <<maze, iterator, next_search_frontier, search_frontier,
                        search_ended, final_searched_cell>>]_vars
    /\ [][(alg # Undefined /\ is_paused' # is_paused) => UNCHANGED <<maze_vars, alg_vars>>]_vars
    /\ []((alg # Undefined /\ search_ended) =>
            Outcome = UnpausedRun(alg, InitialFrontier(alg), InitialGrid, undefined_cell, <<>>))

\* a run that is paused after three expansions and before its end
C22_Witness ==
    /\ alg # Undefined
    /\ is_paused
    /\ ~search_ended
    /\ Len(expanded) >= 3
    /\ interval_live

\* the nodes waiting to be expanded, oldest first for BFS, by priority for
\* GBFS and ASTAR
Waiting ==
    IF alg = "BFS" THEN Discovered
    ELSE [i \in 1 .. Len(search_frontier) |-> search_frontier[i].cell]

\* C23: in every state before search_ended, the cells of the waiting nodes
\* other than the start root are exactly the cells whose state is ACTIVE, and
\* no cell is waiting twice.
C23_FrontierIsActive ==
    (alg # Undefined /\ ~search_ended) =>
        /\ {Waiting[i].coord : i \in {j \in 1 .. Len(Waiting) :
                                         Waiting[j].prev_cell # undefined_cell}}
              = {c \in Coordinates(width, height) : maze[c.x][c.y] = ACTIVE}
        /\ \A i, j \in 1 .. Len(Waiting) : Waiting[i].coord = Waiting[j].coord => i = j

\* a run in progress with three nodes waiting after two expansions
C23_Witness ==
    /\ alg # Undefined
    /\ ~search_ended
    /\ Len(expanded) >= 2
    /\ Len(Waiting) >= 3
    /\ \A i \in 1 .. Len(Waiting) : Waiting[i].prev_cell # undefined_cell

\* C24: a strategy run to its end, reloaded and run to its end again on the
\* same grid gives the found node (so the outcome and the path), the order of
\* expansion and the final cell states of the run before, whether that run
\* began on the generated grid or on a reloaded one.
C24_RerunDeterminism ==
    (previous.ended /\ search_ended) =>
        /\ alg = previous.alg
        /\ final_searched_cell = previous.final
        /\ final_searched_cell # undefined_cell =>
              Reconstruct(final_searched_cell) = Reconstruct(previous.final)
        /\ expanded = previous.expanded
        /\ maze = previous.maze

\* a second run that has found the end after three expansions
C24_Witness ==
    /\ previous.ended
    /\ search_ended
    /\ final_searched_cell # undefined_cell
    /\ Len(expanded) >= 3
    /\ \E c \in Coordinates(width, height) : maze[c.x][c.y] = WALL

====
